---- MODULE Spec2Model ----
(***************************************************************************)
(* SubdomainScanner of domainscan.py as a state machine.                   *)
(*                                                                         *)
(* The scanner runs on one asyncio event loop: a coroutine runs without    *)
(* interruption from one await that suspends to the next.  The main        *)
(* coroutine (process_domains_file -> scan_domain -> scan_subdomains_chunk)*)
(* is followed with `pc`; every check_subdomain coroutine that gather      *)
(* started for the current chunk is one entry of `tasks`.                  *)
(***************************************************************************)
EXTENDS Integers, Sequences, FiniteSets, TLC

\* ------------------------------------------------------------------ bounds
\* largest concurrent_requests, max_retries, chunk_size and max_length tried
MaxConcurrent == 2
MaxRetries == 3
MaxChunk == 3
MaxLength == 2

\* ------------------------------------------------------- program constants
\* asyncio.sleep(0.1 * (attempt + 1)): the base delay, in milliseconds
BaseDelayMs == 100

\* self.chars, cut to its first two characters (the source has a..z, 0..9)
chars == <<"a", "b">>

\* the contents of the domains file: one domain, one domain listed twice,
\* two different domains
DomainLists ==
    { <<"example.com">>,
      <<"example.com", "example.com">>,
      <<"example.com", "example.org">> }

DomainSet == UNION { {dl[k] : k \in 1..Len(dl)} : dl \in DomainLists }

\* Python's None, as check_subdomain returns it
None == <<>>

Min(a, b) == IF a < b THEN a ELSE b

\* ------------------------------------------------------- pure functions

\* full_domain = f"{subdomain}.{domain}"
\* a candidate name without the domain
FullDomain_LabelOnly(subdomain, domain) == subdomain

FullDomain(subdomain, domain) == subdomain \o "." \o domain

\* [''.join(p) for p in product(self.chars, repeat=length)]: the rightmost
\* position runs fastest; repeat=0 gives the one empty label
\* a product whose first position changes fastest
RECURSIVE generate_subdomains_FirstFastest(_)
generate_subdomains_FirstFastest(length) ==
    IF length = 0
    THEN << "" >>
    ELSE LET shorter == generate_subdomains_FirstFastest(length - 1)
             n == Len(chars)
         IN  [ k \in 1..(Len(shorter) * n) |->
                 chars[((k - 1) % n) + 1] \o shorter[((k - 1) \div n) + 1] ]

RECURSIVE generate_subdomains(_)
generate_subdomains(length) ==
    IF length = 0
    THEN << "" >>
    ELSE LET shorter == generate_subdomains(length - 1)
             n == Len(chars)
         IN  [ k \in 1..(Len(shorter) * n) |->
                 shorter[((k - 1) \div n) + 1] \o chars[((k - 1) % n) + 1] ]

\* ---------------------------------------------------------- the responder
\* What a host answers to GET http://host:
\*   "title"    200, body with <title>Hi</title>
\*   "notitle"  200, body without a title element
\*   "status"   a status other than 200
\*   "error"    session.get raises (connection error, timeout)
\*   "bodyerr"  200, but reading the body raises
\*   "late"     the first attempt raises, every later one is as "title"
\* All but "late" answer the same at every attempt.
SteadyCycle == <<"title", "error", "status", "notitle", "bodyerr">>
FlakyCycle == <<"late", "status", "title", "error">>

AllLabels ==
    UNION { {generate_subdomains(L)[k] : k \in 1..Len(generate_subdomains(L))}
            : L \in 0..MaxLength }

\* the hosts in a fixed order: by domain, then by length, then generator order
RECURSIVE LabelsUpTo(_)
LabelsUpTo(L) == IF L < 0 THEN <<>> ELSE LabelsUpTo(L - 1) \o generate_subdomains(L)

HostIndex(subdomain, domain) ==
    LET ls == LabelsUpTo(MaxLength)
        li == CHOOSE k \in 1..Len(ls) : ls[k] = subdomain
    IN  li + (IF domain = "example.com" THEN 0 ELSE 2)

\* a mock responder: the kinds of `cycle` dealt out over the hosts, from its
\* position s on
Deal(cycle, s) ==
    [ l \in AllLabels, dm \in DomainSet |->
        cycle[((HostIndex(l, dm) + s) % Len(cycle)) + 1] ]

\* the responder of the end-to-end scenario: only a.example.com answers 200,
\* every other host errors
OnlyA ==
    [ l \in AllLabels, dm \in DomainSet |->
        IF l = "a" /\ dm = "example.com" THEN "title" ELSE "error" ]

Responders ==
    { Deal(SteadyCycle, s) : s \in 0..(Len(SteadyCycle) - 1) }
    \cup { Deal(FlakyCycle, s) : s \in 0..(Len(FlakyCycle) - 1) }
    \cup { OnlyA }

\* what a host of this kind answers to the attempt with index a
Answer(kind, a) ==
    IF kind = "late" THEN (IF a = 0 THEN "error" ELSE "title") ELSE kind

\* ------------------------------------------------------------------ state
VARIABLES
    concurrent_requests,  \* constructor arguments
    max_retries,
    chunk_size,
    min_length,           \* scan_domain's arguments
    max_length,
    domains,              \* the rows of the input file
    responder,            \* the network: label, domain -> kind of answer
    seen_subdomains,      \* self.seen_subdomains
    rate_limiter,         \* self.rate_limiter._value: the free slots
    waiters,              \* self.rate_limiter._waiters: tasks suspended in acquire, FIFO
    tasks,                \* the check_subdomain coroutines of the current chunk
    pc,                   \* where the main coroutine is
    d,                    \* index into domains of the domain being scanned
    length,               \* scan_domain's loop variable
    subdomains,           \* the candidate list of the current length
    i,                    \* start of the current chunk in subdomains
    all_results,          \* scan_domain's running result list
    progress,             \* the progress lines scan_domain logged for the current domain
    rows,                 \* the rows written to the output file
    session,              \* self.session: "none", "open" or "closed"
    http_calls,           \* per full_domain: check_subdomain calls that issued a request
    seen_scoped           \* what a seen set emptied at every scan_domain would hold

inputs == <<concurrent_requests, max_retries, chunk_size, min_length, max_length,
            domains, responder>>
limiter == <<rate_limiter, waiters>>
scan == <<d, length, subdomains, i, all_results, progress, rows, session>>
vars == <<inputs, seen_subdomains, limiter, tasks, pc, scan, http_calls, seen_scoped>>

domain == domains[d]

\* a slice without its upper end: everything from i on
chunk_Rest == SubSeq(subdomains, i + 1, Len(subdomains))

\* the slice subdomains[i:i + self.chunk_size]
chunk == SubSeq(subdomains, i + 1, Min(i + chunk_size, Len(subdomains)))

TaskIds == DOMAIN tasks

\* the coroutine object check_subdomain(subdomain, domain), not yet run
NewTask(subdomain, dm) ==
    [ subdomain |-> subdomain, domain |-> dm, pc |-> "start", attempt |-> 0, result |-> None,
      skipped |-> FALSE, trace |-> <<>> ]

\* what a task did, in order: "get" n is the n-th HTTP attempt, "sleep" n the
\* backoff after it, of ms milliseconds
Event(op, n, ms) == [ op |-> op, n |-> n, ms |-> ms ]

\* ------------------------------------------------------------ the limiter
\* The engine state a probe step changes: the tasks and the semaphore.
Engine == [ tasks |-> tasks, rate_limiter |-> rate_limiter, waiters |-> waiters ]

\* a release that frees the slot without waking the first task that waits
Release_NoWakeUp(e) == [ e EXCEPT !.rate_limiter = @ + 1 ]

\* Semaphore.release(): the value goes up by one and the first waiter, if
\* any, takes it at once (its future is resolved; it runs again later)
Release(e) ==
    IF e.waiters = <<>>
    THEN [ e EXCEPT !.rate_limiter = @ + 1 ]
    ELSE [ e EXCEPT !.tasks[Head(e.waiters)].pc = "admitted",
                    !.waiters = Tail(@) ]

\* a limiter released by hand on the success path only
Return_NoReleaseOnNone(e, t, res) ==
    IF res = None
    THEN [ e EXCEPT !.tasks[t].pc = "done", !.tasks[t].result = res ]
    ELSE Release([ e EXCEPT !.tasks[t].pc = "done", !.tasks[t].result = res ])

\* a return from inside `async with self.rate_limiter`, or falling out of it
Return(e, t, res) ==
    Release([ e EXCEPT !.tasks[t].pc = "done", !.tasks[t].result = res ])

\* a return before the limiter was entered
ReturnEarly(e, t, res) ==
    [ e EXCEPT !.tasks[t].pc = "done", !.tasks[t].result = res,
               !.tasks[t].skipped = TRUE ]

\* `for attempt in range(self.max_retries)` reaching index a: the next GET is
\* issued, or the loop is over and check_subdomain returns None
Attempt(e, t, a) ==
    IF a < max_retries
    THEN [ e EXCEPT !.tasks[t].pc = "get",
                    !.tasks[t].attempt = a,
                    !.tasks[t].trace = Append(@, Event("get", a + 1, 0)) ]
    ELSE Return(e, t, None)

\* a limiter that admits whoever asks
Acquire_NoLimit(e, t) == Attempt([ e EXCEPT !.rate_limiter = @ - 1 ], t, 0)

\* Semaphore.acquire(): a free slot and nobody queued -> taken without
\* suspending; otherwise the task queues and suspends
Acquire(e, t) ==
    IF e.rate_limiter > 0 /\ e.waiters = <<>>
    THEN Attempt([ e EXCEPT !.rate_limiter = @ - 1 ], t, 0)
    ELSE [ e EXCEPT !.tasks[t].pc = "acquire", !.waiters = Append(@, t) ]

\* `if full_domain in self.seen_subdomains`
AlreadySeen(full_domain) == full_domain \in seen_subdomains

\* the add left out
MarkSeen_Forgotten(full_domain) == seen_subdomains

\* a set that remembers the last full_domain only
MarkSeen_OnlyLast(full_domain) == {full_domain}

\* self.seen_subdomains.add(full_domain)
MarkSeen(full_domain) == seen_subdomains \cup {full_domain}

\* soup.title.string if soup.title else "No Title"
Title(kind) == IF kind = "title" THEN "Hi" ELSE "No Title"

\* a backoff that does not grow with the attempt
Backoff_Constant(e, t) ==
    LET a == e.tasks[t].attempt
    IN  [ e EXCEPT !.tasks[t].pc = "sleep",
                   !.tasks[t].trace = Append(@, Event("sleep", a + 1, BaseDelayMs)) ]

\* an except branch that does not sleep when no attempt is left
Backoff_NotAfterLast(e, t) ==
    LET a == e.tasks[t].attempt
    IN  IF a + 1 < max_retries
        THEN [ e EXCEPT !.tasks[t].pc = "sleep",
                        !.tasks[t].trace = Append(@, Event("sleep", a + 1, BaseDelayMs * (a + 1))) ]
        ELSE Return(e, t, None)

\* the except branch: await asyncio.sleep(0.1 * (attempt + 1))
Backoff(e, t) ==
    LET a == e.tasks[t].attempt
    IN  [ e EXCEPT !.tasks[t].pc = "sleep",
                   !.tasks[t].trace = Append(@, Event("sleep", a + 1, BaseDelayMs * (a + 1))) ]

\* a handler that gives up at the first error of reading or parsing the body
OnResponse_BodyGivesUp(e, t, kind) ==
    LET tk == e.tasks[t]
    IN  CASE kind \in {"title", "notitle"} ->
               Return(e, t, <<FullDomain(tk.subdomain, tk.domain), Title(kind)>>)
          [] kind = "status" -> Attempt(e, t, tk.attempt + 1)
          [] kind = "bodyerr" -> Return(e, t, None)
          [] OTHER -> Backoff(e, t)

\* the answer to the GET of task t arrives: lines 63-72
OnResponse(e, t, kind) ==
    LET tk == e.tasks[t]
    IN  CASE kind \in {"title", "notitle"} ->
               Return(e, t, <<FullDomain(tk.subdomain, tk.domain), Title(kind)>>)
          [] kind = "status" -> Attempt(e, t, tk.attempt + 1)
          [] OTHER -> Backoff(e, t)

\* one more check_subdomain call has sent a request for full_domain
Counted(full_domain) ==
    IF full_domain \in DOMAIN http_calls
    THEN [ http_calls EXCEPT ![full_domain] = @ + 1 ]
    ELSE http_calls @@ (full_domain :> 1)

Install(e) ==
    /\ tasks' = e.tasks
    /\ rate_limiter' = e.rate_limiter
    /\ waiters' = e.waiters

AllStarted == \A t \in TaskIds : tasks[t].pc # "start"

\* ------------------------------------------------------- check_subdomain
\* First run of the coroutine of task t, up to its first suspension
\* (lines 53-63).  gather starts the coroutines in list order.
Start(t) ==
    /\ pc = "gather"
    /\ tasks[t].pc = "start"
    /\ \A u \in TaskIds : u < t => tasks[u].pc # "start"
    /\ LET full_domain == FullDomain(tasks[t].subdomain, tasks[t].domain)
       IN  IF AlreadySeen(full_domain)
           THEN /\ Install(ReturnEarly(Engine, t, None))
                /\ UNCHANGED <<seen_subdomains, http_calls>>
                /\ seen_scoped' = seen_scoped \cup {full_domain}
           ELSE LET e == Acquire(Engine, t)
                IN  /\ seen_subdomains' = MarkSeen(full_domain)
                    /\ seen_scoped' = seen_scoped \cup {full_domain}
                    /\ Install(e)
                    /\ http_calls' = IF e.tasks[t].pc = "get"
                                     THEN Counted(full_domain) ELSE http_calls
    /\ UNCHANGED <<inputs, pc, scan>>

\* A task that was handed a slot runs again and enters the retry loop.
Resume(t) ==
    /\ pc = "gather"
    /\ AllStarted
    /\ tasks[t].pc = "admitted"
    /\ LET e == Attempt(Engine, t, 0)
       IN  /\ Install(e)
           /\ http_calls' = IF e.tasks[t].pc = "get"
                            THEN Counted(FullDomain(tasks[t].subdomain, tasks[t].domain))
                            ELSE http_calls
    /\ UNCHANGED <<inputs, seen_subdomains, pc, scan, seen_scoped>>

\* The GET of task t is answered.
Response(t) ==
    /\ pc = "gather"
    /\ AllStarted
    /\ tasks[t].pc = "get"
    /\ Install(OnResponse(Engine, t,
                 Answer(responder[tasks[t].subdomain, tasks[t].domain], tasks[t].attempt)))
    /\ UNCHANGED <<inputs, seen_subdomains, pc, scan, http_calls, seen_scoped>>

\* The backoff sleep of task t is over: the loop goes on.
Wake(t) ==
    /\ pc = "gather"
    /\ AllStarted
    /\ tasks[t].pc = "sleep"
    /\ Install(Attempt(Engine, t, tasks[t].attempt + 1))
    /\ UNCHANGED <<inputs, seen_subdomains, pc, scan, http_calls, seen_scoped>>

\* ------------------------------------------------------ the main coroutine
\* progress, as the log line prints it with {progress:.1f}: tenths of a percent
Percent10(processed, total) == (processed * 1000 * 2 + total) \div (2 * total)

\* process_domains_file, `for domain in domains`: the next domain's
\* scan_domain is entered (lines 115-117, 88-89), or the file is finished
NextDomain ==
    /\ pc = "domains"
    /\ IF d < Len(domains)
       THEN /\ d' = d + 1
            /\ all_results' = <<>>
            /\ progress' = <<>>
            /\ length' = min_length
            /\ seen_scoped' = {}
            /\ pc' = "lengths"
       ELSE /\ pc' = "finished"
            /\ UNCHANGED <<d, all_results, progress, length, seen_scoped>>
    /\ UNCHANGED <<inputs, seen_subdomains, limiter, tasks, subdomains, i, rows,
                   session, http_calls>>

\* product(self.chars, repeat=length) raises ValueError for a negative repeat
Raises(len) == len < 0

\* scan_domain, `for length in range(min_length, max_length + 1)` (lines 91-93);
\* a ValueError of generate_subdomains leaves scan_domain and
\* process_domains_file (lines 124-126)
NextLength ==
    /\ pc = "lengths"
    /\ IF length > max_length
       THEN /\ pc' = "return"
            /\ UNCHANGED <<subdomains, i>>
       ELSE IF Raises(length)
       THEN /\ pc' = "raised"
            /\ UNCHANGED <<subdomains, i>>
       ELSE /\ subdomains' = generate_subdomains(length)
            /\ i' = 0
            /\ pc' = "chunks"
    /\ UNCHANGED <<inputs, seen_subdomains, limiter, tasks, d, length, all_results,
                   progress, rows, session, http_calls, seen_scoped>>

\* scan_domain, `for i in range(0, len(subdomains), self.chunk_size)`, and the
\* call of scan_subdomains_chunk up to its await (lines 95-97, 82-83)
NextChunk ==
    /\ pc = "chunks"
    /\ IF i < Len(subdomains)
       THEN /\ tasks' = [ t \in 1..Len(chunk) |-> NewTask(chunk[t], domain) ]
            /\ pc' = "gather"
            /\ UNCHANGED length
       ELSE /\ length' = length + 1
            /\ pc' = "lengths"
            /\ UNCHANGED tasks
    /\ UNCHANGED <<inputs, seen_subdomains, limiter, d, subdomains, i, all_results,
                   progress, rows, session, http_calls, seen_scoped>>

\* a filter that stops after the first result it keeps
RECURSIVE Found_FirstOnly(_, _)
Found_FirstOnly(ts, n) ==
    IF n = 0 THEN <<>>
    ELSE LET before == Found_FirstOnly(ts, n - 1)
         IN  IF before # <<>> \/ ts[n].result = None THEN before ELSE <<ts[n].result>>

\* the results with the task last in the chunk first
RECURSIVE Found_Reversed(_, _)
Found_Reversed(ts, n) ==
    IF n = 0 THEN <<>>
    ELSE (IF ts[n].result = None THEN <<>> ELSE <<ts[n].result>>) \o Found_Reversed(ts, n - 1)

\* [r for r in results if r is not None], in the order of the tasks
RECURSIVE Found(_, _)
Found(ts, n) ==
    IF n = 0 THEN <<>>
    ELSE Found(ts, n - 1) \o (IF ts[n].result = None THEN <<>> ELSE <<ts[n].result>>)

\* a wait that ends with the first task that returns
Gathered_First == \E t \in TaskIds : tasks[t].pc = "done"

\* `await asyncio.gather(*tasks)` goes on when every task has returned
Gathered == \A t \in TaskIds : tasks[t].pc = "done"

\* the chunk's own size, without its start
Processed_ChunkOnly == Len(chunk)

\* the nominal end of the chunk, not cut at the end of the list
Processed_Unclamped == i + chunk_size

\* i + len(chunk) of the progress line
Processed == i + Len(chunk)

\* gather returns, the chunk's results are appended and the progress line is
\* logged (lines 83-84, 98-102)
Gather ==
    /\ pc = "gather"
    /\ Gathered
    /\ LET results == Found(tasks, Len(tasks))
           processed == Processed
           total == Len(subdomains)
       IN  /\ all_results' = all_results \o results
           /\ progress' = Append(progress,
                 [ length |-> length, processed |-> processed, total |-> total,
                   percent10 |-> Percent10(processed, total),
                   found |-> Len(all_results) + Len(results) ])
    /\ i' = i + chunk_size
    /\ pc' = "chunks"
    /\ UNCHANGED <<inputs, seen_subdomains, limiter, tasks, d, length, subdomains, rows,
                   session, http_calls, seen_scoped>>

\* a row for the first result only
RowsOf_FirstOnly(results, dm) ==
    IF results = <<>> THEN <<>> ELSE << <<results[1][1], results[1][2], dm>> >>

\* writer.writerow([subdomain, title, domain]) for every result
RowsOf(results, dm) ==
    [ k \in 1..Len(results) |-> <<results[k][1], results[k][2], dm>> ]

\* scan_domain returns all_results; process_domains_file writes its rows
\* (lines 104, 117-122)
WriteRows ==
    /\ pc = "return"
    /\ rows' = rows \o RowsOf(all_results, domain)
    /\ pc' = "domains"
    /\ UNCHANGED <<inputs, seen_subdomains, limiter, tasks, d, length, subdomains, i,
                   all_results, progress, session, http_calls, seen_scoped>>

\* everything but pc and session
body == <<inputs, seen_subdomains, limiter, tasks, d, length, subdomains, i,
          all_results, progress, rows, http_calls, seen_scoped>>

\* main, `async with SubdomainScanner(...) as scanner`: __aenter__ creates the
\* session (lines 37-44, 132-137)
Enter ==
    /\ pc = "enter"
    /\ session' = "open"
    /\ pc' = "open_files"
    /\ UNCHANGED body

\* process_domains_file opens the input and the output file (lines 108-113);
\* either open may raise OSError, which is logged and raised again (124-126)
OpenFiles ==
    /\ pc = "open_files"
    /\ \/ pc' = "domains"
       \/ pc' = "raised"
    /\ UNCHANGED <<body, session>>

\* a __aexit__ that closes the session on a normal exit only
SessionAfterExit_NormalOnly(s, failed) ==
    IF s # "none" /\ ~failed THEN "closed" ELSE s

\* __aexit__: `if self.session: await self.session.close()`; an exception of
\* the block is not swallowed (lines 46-49)
SessionAfterExit(s, failed) == IF s # "none" THEN "closed" ELSE s

\* the `async with` block of main is left, after process_domains_file
\* returned or raised (lines 46-49, 138)
Exit ==
    /\ pc \in {"finished", "raised"}
    /\ session' = SessionAfterExit(session, pc = "raised")
    /\ pc' = IF pc = "raised" THEN "propagated" ELSE "returned"
    /\ UNCHANGED body

\* ------------------------------------------------------------ specification
Configured ==
    /\ concurrent_requests \in 1..MaxConcurrent
    /\ max_retries \in 0..MaxRetries
    /\ chunk_size \in 1..MaxChunk
    /\ max_length \in 1..MaxLength
    /\ min_length \in 1..max_length
    /\ domains \in DomainLists
    /\ responder \in Responders

\* After SubdomainScanner(...) was constructed (lines 20-26).
Constructed ==
    /\ seen_subdomains = {}
    /\ rate_limiter = concurrent_requests
    /\ waiters = <<>>
    /\ tasks = <<>>
    /\ pc = "enter"
    /\ session = "none"
    /\ seen_scoped = {}
    /\ d = 0
    /\ length = 0
    /\ subdomains = <<>>
    /\ i = 0
    /\ all_results = <<>>
    /\ progress = <<>>
    /\ rows = <<>>
    /\ http_calls = <<>>

Init == Configured /\ Constructed

Next ==
    \/ Enter
    \/ OpenFiles
    \/ Exit
    \/ NextDomain
    \/ NextLength
    \/ NextChunk
    \/ Gather
    \/ WriteRows
    \/ \E t \in TaskIds : Start(t)
    \/ \E t \in TaskIds : Resume(t)
    \/ \E t \in TaskIds : Response(t)
    \/ \E t \in TaskIds : Wake(t)

Spec == Init /\ [][Next]_vars

\* The event loop runs every coroutine that can go on: the main coroutine
\* and the tasks of gather; and every request is answered, by a response or
\* by an exception, the timeout of ClientTimeout(total=self.timeout) at the
\* latest (line 41).
MainStep ==
    Enter \/ OpenFiles \/ Exit \/ NextDomain \/ NextLength \/ NextChunk \/ Gather \/ WriteRows

TaskStep == \E t \in TaskIds : Start(t) \/ Resume(t) \/ Wake(t)

Answered == \E t \in TaskIds : Response(t)

\* a run over one domain, against hosts of every kind
ConfiguredOneDomain ==
    /\ concurrent_requests \in 1..MaxConcurrent
    /\ max_retries \in 0..MaxRetries
    /\ chunk_size \in 1..MaxChunk
    /\ max_length \in 1..MaxLength
    /\ min_length \in 1..max_length
    /\ domains = <<"example.com">>
    /\ responder \in { Deal(SteadyCycle, 0), Deal(FlakyCycle, 0) }

InitOneDomain == ConfiguredOneDomain /\ Constructed

FairSpec ==
    /\ InitOneDomain
    /\ [][Next]_vars
    /\ WF_vars(MainStep)
    /\ WF_vars(TaskStep)
    /\ WF_vars(Answered)

\* scan_domain(domain, min_length, max_length) called with a min_length
\* below 1 (line 86), for one domain
ConfiguredBelowOne ==
    /\ concurrent_requests \in 1..MaxConcurrent
    /\ max_retries \in 0..MaxRetries
    /\ chunk_size \in 1..MaxChunk
    /\ max_length \in 0..MaxLength
    /\ min_length \in {-1, 0}
    /\ domains = <<"example.com">>
    /\ responder \in Responders

InitBelowOne == ConfiguredBelowOne /\ Constructed

SpecBelowOne == InitBelowOne /\ [][Next]_vars

\* ==================================================================== claims
Holding(t) == tasks[t].pc \in {"admitted", "get", "sleep"}

\* probes admitted by rate_limiter that have not released it
InFlight == Cardinality({ t \in TaskIds : Holding(t) })

\* probes handed to gather that have not returned
Dispatched == Cardinality({ t \in TaskIds : tasks[t].pc # "done" })

\* those of them whose coroutine has run: waiting for a slot or holding one
Unresolved == Cardinality({ t \in TaskIds : tasks[t].pc \notin {"start", "done"} })

KindOf(t) == responder[tasks[t].subdomain, tasks[t].domain]

Gets(tr) == Cardinality({ k \in 1..Len(tr) : tr[k].op = "get" })

\* C1: for every full_domain at most one check_subdomain call of the scanner
\* ever sends a request; a call that finds it in seen_subdomains returns None
\* and touches neither the limiter nor the network.
C1_ProbedAtMostOnce ==
    /\ \A f \in DOMAIN http_calls : http_calls[f] <= 1
    /\ \A t \in TaskIds :
          tasks[t].skipped => tasks[t].result = None /\ tasks[t].trace = <<>>

\* a second call for a full_domain that was probed before has returned
C1_Witness ==
    \E t \in TaskIds :
       /\ tasks[t].skipped
       /\ FullDomain(tasks[t].subdomain, tasks[t].domain) \in DOMAIN http_calls

\* C2: the probes that hold a slot of rate_limiter (HTTP attempt or backoff
\* sleep) are never more than concurrent_requests.
C2_InFlightBounded == InFlight <= concurrent_requests

\* every slot is taken, one holder sleeps in its backoff and a probe waits
C2_Witness ==
    /\ InFlight = concurrent_requests
    /\ waiters # <<>>
    /\ \E t \in TaskIds : tasks[t].pc = "sleep"

\* C3, as claimed: the dispatched probes that have not completed, those
\* waiting for a slot included, are never more than concurrent_requests.
C3_UnresolvedWithinConcurrency == Unresolved <= concurrent_requests

\* C3, amended: the dispatched probes that have not completed are never more
\* than chunk_size, and those of them that were admitted never more than
\* concurrent_requests.
C3_UnresolvedWithinChunk ==
    /\ Unresolved <= Dispatched
    /\ Dispatched <= chunk_size
    /\ Unresolved - Len(waiters) <= concurrent_requests

\* more probes are unresolved than there are slots, the surplus queued
C3_Witness ==
    /\ Unresolved > concurrent_requests
    /\ Unresolved = chunk_size
    /\ Len(waiters) = Unresolved - concurrent_requests

\* C4: every admitted probe holds exactly one slot until it returns, on
\* every way out of check_subdomain, so that the free slots are
\* concurrent_requests again whenever scan_subdomains_chunk has returned.
C4_SlotsConserved ==
    /\ rate_limiter + InFlight = concurrent_requests
    /\ pc # "gather" => rate_limiter = concurrent_requests /\ waiters = <<>>

\* a chunk has returned in which one probe returned a result, one ran out of
\* attempts on a status and one ended after the backoff of an exception
C4_Witness ==
    /\ pc = "chunks"
    /\ \E t \in TaskIds : tasks[t].result # None
    /\ \E t \in TaskIds :
          /\ tasks[t].result = None
          /\ tasks[t].trace # <<>>
          /\ tasks[t].trace[Len(tasks[t].trace)].op = "get"
    /\ \E t \in TaskIds :
          /\ tasks[t].result = None
          /\ tasks[t].trace # <<>>
          /\ tasks[t].trace[Len(tasks[t].trace)].op = "sleep"

\* C5: chunks are handled one after the other: outside the await of gather
\* no probe is unresolved, the probes in flight are those of the current
\* chunk, and when the next chunk is dispatched every probe of the one
\* before has returned and, if that one was a chunk of the same scan_domain
\* call, its results are in all_results.
C5_Barrier ==
    /\ [](/\ pc # "gather" => \A t \in TaskIds : tasks[t].pc = "done"
          /\ pc = "gather" =>
                /\ Len(tasks) = Len(chunk)
                /\ \A t \in TaskIds : tasks[t].subdomain = chunk[t])
    /\ [][ pc = "chunks" /\ pc' = "gather" =>
             \A t \in TaskIds :
                /\ tasks[t].pc = "done"
                /\ (tasks[t].domain = domain /\ progress # <<>>
                      /\ tasks[t].result # None) =>
                      \E k \in 1..Len(all_results) : all_results[k] = tasks[t].result
         ]_vars

\* a later chunk of a length is being probed with a result of an earlier one
\* in all_results
C5_Witness ==
    /\ pc = "gather"
    /\ i > 0
    /\ all_results # <<>>
    /\ \E t \in TaskIds : tasks[t].pc = "get"

\* the attempts of a trace are numbered 1, 2, ... and each one after the first
\* comes right after the backoff of the one before, of at least
\* BaseDelayMs times that attempt's number
BackedOff(tr) ==
    \A k \in 1..Len(tr) :
       tr[k].op = "get" =>
          /\ tr[k].n = Gets(SubSeq(tr, 1, k))
          /\ tr[k].n > 1 =>
                /\ tr[k - 1].op = "sleep"
                /\ tr[k - 1].n = tr[k].n - 1
                /\ tr[k - 1].ms >= BaseDelayMs * (tr[k].n - 1)

\* C6: a probe of a host not seen before whose every attempt raises a
\* connection error makes exactly max_retries attempts, waits at least
\* BaseDelayMs * n between attempts n and n + 1, and returns None.
C6_ErrorHostExhaustsRetries ==
    \A t \in TaskIds :
       (KindOf(t) = "error" /\ ~tasks[t].skipped) =>
          /\ Gets(tasks[t].trace) <= max_retries
          /\ BackedOff(tasks[t].trace)
          /\ tasks[t].pc = "done" =>
                /\ Gets(tasks[t].trace) = max_retries
                /\ tasks[t].result = None

\* a probe of an erroring host has returned after three attempts
C6_Witness ==
    \E t \in TaskIds :
       /\ KindOf(t) = "error"
       /\ ~tasks[t].skipped
       /\ tasks[t].pc = "done"
       /\ Gets(tasks[t].trace) = 3

\* C7: a status other than 200 is retried like an error: at most max_retries
\* attempts, with a backoff of BaseDelayMs * n between attempt n and the next.
C7_StatusBackedOff ==
    \A t \in TaskIds :
       (KindOf(t) = "status" /\ ~tasks[t].skipped) =>
          /\ Gets(tasks[t].trace) <= max_retries
          /\ BackedOff(tasks[t].trace)

\* C8, as claimed: over one scan_domain call the processed counts of the
\* progress lines increase strictly, also from one length to the next.
C8_ProcessedIncreasing ==
    \A j, k \in 1..Len(progress) :
       j < k => progress[j].processed < progress[k].processed

\* C8, amended: the processed counts increase strictly among the progress
\* lines of one length; the lengths come in ascending order and the count
\* starts again at every new length.
C8_ProcessedIncreasingPerLength ==
    /\ \A j, k \in 1..Len(progress) :
          j < k =>
             /\ progress[j].length <= progress[k].length
             /\ progress[j].length = progress[k].length =>
                   progress[j].processed < progress[k].processed
    /\ \A k \in 1..Len(progress) :
          (k = 1 \/ progress[k - 1].length < progress[k].length) =>
             progress[k].processed = Min(chunk_size, progress[k].total)

\* a length with two progress lines is followed by a length whose first
\* count is not above the last one before
C8_Witness ==
    \E k \in 2..(Len(progress) - 1) :
       /\ progress[k - 1].length = progress[k].length
       /\ progress[k].length < progress[k + 1].length
       /\ progress[k + 1].processed <= progress[k].processed

RECURSIVE Power(_, _)
Power(b, n) == IF n <= 0 THEN 1 ELSE b * Power(b, n - 1)

CeilDiv(a, b) == (a + b - 1) \div b

\* the progress lines of length L, in order
LinesOf(L) ==
    LET OfL(e) == e.length = L
    IN  SelectSeq(progress, OfL)

\* C9: a length with total candidates gets ceil(total / chunk_size) progress
\* lines; the k-th has processed = min(k * chunk_size, total); the percent
\* grows strictly and the last line has processed = total and 100 percent.
C9_ProgressPerLength ==
    \A L \in min_length..max_length :
       LET ev == LinesOf(L)
           total == Power(Len(chars), L)
           lines == CeilDiv(total, chunk_size)
       IN  /\ Len(ev) <= lines
           /\ L < length => Len(ev) = lines
           /\ \A k \in 1..Len(ev) :
                 /\ ev[k].total = total
                 /\ ev[k].processed = Min(k * chunk_size, total)
                 /\ k > 1 => ev[k - 1].percent10 < ev[k].percent10
                 /\ k = lines => ev[k].processed = total /\ ev[k].percent10 = 1000

\* a length of four candidates was scanned in chunks of three: two lines, the
\* second for the short chunk
C9_Witness ==
    /\ chunk_size = 3
    /\ length > 2
    /\ min_length <= 2
    /\ Len(LinesOf(2)) = 2
    /\ LinesOf(2)[2].processed = 4

\* the candidates of one scan_domain call
Candidates == { l \in AllLabels : Len(l) >= min_length /\ Len(l) <= max_length }

\* every candidate's host answers the same at every attempt
Steady == \A l \in Candidates : responder[l, domain] # "late"

\* the results a scan of the current domain has to return
Live ==
    { <<FullDomain(l, domain), Title(responder[l, domain])>> :
        l \in { c \in Candidates : responder[c, domain] \in {"title", "notitle"} } }

ReturnedExactlyLive ==
    /\ { all_results[k] : k \in 1..Len(all_results) } = Live
    /\ Len(all_results) = Cardinality(Live)

\* C10, as claimed: a scanner with an empty seen set, against hosts that
\* answer the same at every attempt, returns exactly one result for each
\* candidate whose host answers 200, whatever the order of completion.
C10_FoundExactlyLive ==
    (pc = "return" /\ d = 1 /\ Steady) => ReturnedExactlyLive

\* C10, amended: the same, for a scanner with max_retries >= 1.
C10_FoundExactlyLiveWithAttempts ==
    (pc = "return" /\ d = 1 /\ Steady /\ max_retries >= 1) => ReturnedExactlyLive

\* the end-to-end scenario: length 1, only a.example.com answers, with two
\* slots for the two probes
C10_Witness ==
    /\ pc = "return"
    /\ d = 1
    /\ responder = OnlyA
    /\ max_retries >= 1
    /\ concurrent_requests = 2
    /\ chunk_size >= 2
    /\ min_length = 1
    /\ max_length = 1
    /\ all_results = << <<"a.example.com", "Hi">> >>

\* the names of the current domain in the order scan_domain takes them:
\* lengths ascending, each length in the order of generate_subdomains
CandidateOrder ==
    LET labels == LabelsUpTo(max_length)
    IN  [ k \in 1..Len(labels) |-> FullDomain(labels[k], domain) ]

\* C11: the list scan_domain builds is ordered: lengths ascending, and within
\* a length the results in the order generate_subdomains gave their
\* candidates, whatever the order in which the probes completed.
C11_ResultsInCandidateOrder ==
    Len(all_results) >= 2 =>
       LET order == CandidateOrder
           Place(full_domain) == CHOOSE k \in 1..Len(order) : order[k] = full_domain
           places == [ j \in 1..Len(all_results) |-> Place(all_results[j][1]) ]
       IN  \A j, k \in 1..Len(all_results) :
              j < k =>
                 /\ places[j] < places[k]
                 /\ Len(all_results[j][1]) <= Len(all_results[k][1])

\* a probe has returned its result while one before it in the chunk, whose
\* host answers 200 too, has not returned yet
C11_Witness ==
    /\ pc = "gather"
    /\ \E t1, t2 \in TaskIds :
          /\ t1 < t2
          /\ tasks[t2].pc = "done"
          /\ tasks[t2].result # None
          /\ tasks[t1].pc \in {"get", "sleep"}
          /\ KindOf(t1) \in {"title", "notitle", "late"}

\* the answers with which a probe fails at every attempt
Failing == {"status", "error", "bodyerr"}

\* C12: a failure of a candidate never raises: the probe of a host that fails
\* at every attempt (error, status other than 200, body that cannot be read)
\* makes its max_retries attempts and returns None; process_domains_file
\* raises only before any probe was dispatched; and scan_domain returns only
\* after every candidate of every length was handed to check_subdomain.
C12_FailuresAreAbsent ==
    /\ \A t \in TaskIds :
          (KindOf(t) \in Failing /\ ~tasks[t].skipped /\ tasks[t].pc = "done") =>
             /\ tasks[t].result = None
             /\ Gets(tasks[t].trace) = max_retries
    /\ pc \in {"raised", "propagated"} => tasks = <<>> /\ seen_subdomains = {}
    /\ pc = "return" =>
          \A l \in Candidates : FullDomain(l, domain) \in seen_subdomains

\* the scan of the first domain returns a result although the first
\* candidate, in a chunk of its own, failed at each of two attempts or more
C12_Witness ==
    /\ pc = "return"
    /\ d = 1
    /\ chunk_size = 1
    /\ max_retries >= 2
    /\ responder["a", domain] \in {"error", "bodyerr"}
    /\ http_calls[FullDomain("a", domain)] = 1
    /\ all_results # <<>>

\* C13: a length below 1 is refused: generate_subdomains raises for it, and a
\* scan_domain call with min_length < 1 never probes a host.
C13_BelowOneNeverProbes ==
    min_length < 1 => http_calls = <<>>

\* the labels of length L over chars in lexicographic order: those that
\* begin with chars[1] in lexicographic order, then those that begin with
\* chars[2], and so on
RECURSIVE Lexicographic(_)
Lexicographic(L) ==
    IF L = 0
    THEN << "" >>
    ELSE LET rest == Lexicographic(L - 1)
         IN  [ k \in 1..(Len(chars) * Len(rest)) |->
                 chars[((k - 1) \div Len(rest)) + 1] \o rest[((k - 1) % Len(rest)) + 1] ]

\* C14: for a length L >= 1 generate_subdomains returns Len(chars)^L labels,
\* pairwise distinct, each of L characters, in the lexicographic order that
\* the order of chars induces; for L = 1 it returns chars itself.
C14_AllLabelsInLexicographicOrder ==
    pc \in {"chunks", "gather"} =>
       /\ Len(subdomains) = Power(Len(chars), length)
       /\ \A k \in 1..Len(subdomains) : Len(subdomains[k]) = length
       /\ \A j, k \in 1..Len(subdomains) : j # k => subdomains[j] # subdomains[k]
       /\ subdomains = Lexicographic(length)
       /\ length = 1 => subdomains = chars

\* the four labels of length 2 have been generated
C14_Witness ==
    /\ pc = "chunks"
    /\ length = 2
    /\ i = 0
    /\ subdomains = <<"aa", "ab", "ba", "bb">>

\* C19: a full_domain is in seen_subdomains before its probe is admitted and
\* before any request for it: every probe that waits for a slot, holds one
\* (request or backoff) or has returned without having been skipped has its
\* full_domain in seen_subdomains; and seen_subdomains never loses an
\* element, also when a probe returns None.
C19_SeenBeforeAdmission ==
    /\ [](/\ \A t \in TaskIds :
               (tasks[t].pc \in {"acquire", "admitted", "get", "sleep"}
                  \/ (tasks[t].pc = "done" /\ ~tasks[t].skipped)) =>
                  FullDomain(tasks[t].subdomain, tasks[t].domain) \in seen_subdomains
          /\ DOMAIN http_calls \subseteq seen_subdomains)
    /\ [][seen_subdomains \subseteq seen_subdomains']_vars

\* one probe waits for the slot, one sleeps in its backoff and one has
\* returned None after a request, all three in seen_subdomains
C19_Witness ==
    /\ \E t \in TaskIds : tasks[t].pc = "acquire"
    /\ \E t \in TaskIds : tasks[t].pc = "sleep"
    /\ \E t \in TaskIds :
          /\ tasks[t].pc = "done"
          /\ tasks[t].result = None
          /\ tasks[t].trace # <<>>
    /\ \A t \in TaskIds :
          FullDomain(tasks[t].subdomain, tasks[t].domain) \in seen_subdomains

\* attempt n of task t ends in an exception
Excepts(t, n) == Answer(KindOf(t), n - 1) \in {"error", "bodyerr"}

\* C20: a probe keeps its slot from its first request to its return, backoff
\* sleeps included; an attempt n that ends in an exception is followed by a
\* sleep of BaseDelayMs * n, the last attempt too; so the probe of a host that
\* raises at every attempt returns None, and gives its slot back, only after
\* the sleep of BaseDelayMs * max_retries.
C20_SlotKeptThroughBackoff ==
    /\ \A t \in TaskIds :
          LET tr == tasks[t].trace
          IN  /\ (tr # <<>> /\ tasks[t].pc # "done") => tasks[t].pc \in {"get", "sleep"}
              /\ \A k \in 1..Len(tr) :
                    (tr[k].op = "get" /\ Excepts(t, tr[k].n)) =>
                       IF k = Len(tr)
                       THEN tasks[t].pc = "get"
                       ELSE /\ tr[k + 1].op = "sleep"
                            /\ tr[k + 1].n = tr[k].n
                            /\ tr[k + 1].ms = BaseDelayMs * tr[k].n
              /\ (KindOf(t) \in {"error", "bodyerr"} /\ tasks[t].pc = "done"
                     /\ ~tasks[t].skipped /\ max_retries >= 1) =>
                    /\ tasks[t].result = None
                    /\ tr[Len(tr)] = Event("sleep", max_retries, BaseDelayMs * max_retries)
    /\ rate_limiter
          + Cardinality({ t \in TaskIds : tasks[t].pc \in {"get", "sleep"} })
          + Cardinality({ t \in TaskIds : tasks[t].pc = "admitted" })
          = concurrent_requests

\* a probe sleeps after its last attempt, the second or a later one, with
\* every slot taken and another probe waiting for one
C20_Witness ==
    /\ rate_limiter = 0
    /\ waiters # <<>>
    /\ \E t \in TaskIds :
          /\ tasks[t].pc = "sleep"
          /\ max_retries >= 2
          /\ tasks[t].attempt + 1 = max_retries
          /\ tasks[t].trace[Len(tasks[t].trace)].ms = BaseDelayMs * max_retries

\* whenever a check_subdomain call is about to test seen_subdomains, the test
\* gives what it would give on a set emptied at the start of the scan_domain
\* call; up to the first call where the two differ both variants have skipped
\* and probed the same candidates, so seen_scoped is the per-domain set
SkipsAsScoped ==
    \A t \in TaskIds :
       tasks[t].pc = "start" =>
          LET full_domain == FullDomain(tasks[t].subdomain, tasks[t].domain)
          IN  AlreadySeen(full_domain) <=> full_domain \in seen_scoped

\* C15, as claimed: for every list of domains a seen set per scan_domain call
\* skips and probes the same candidates as the set shared by the scanner, so
\* that the same hosts are probed and the same rows written.
C15_ScopedSetSkipsTheSame == pc = "gather" => SkipsAsScoped

\* C15, amended: the same, for a list of pairwise distinct domains.
C15_ScopedSetSkipsTheSameDistinct ==
    (pc = "gather" /\ \A j, k \in 1..Len(domains) : j # k => domains[j] # domains[k])
       => SkipsAsScoped

\* in the scan of a second, different domain a label whose name under the
\* first domain is in seen_subdomains is about to be tested
C15_Witness ==
    /\ pc = "gather"
    /\ d = 2
    /\ domains[1] # domains[2]
    /\ seen_subdomains # seen_scoped
    /\ \E t \in TaskIds :
          /\ tasks[t].pc = "start"
          /\ FullDomain(tasks[t].subdomain, domains[1]) \in seen_subdomains
          /\ ~AlreadySeen(FullDomain(tasks[t].subdomain, domains[2]))

\* C16: rows are written in one step per domain, when scan_domain has
\* returned for it: every probe has returned, the step appends one row
\* (full_domain, title, domain) for each result of the scan, in order, and
\* nothing else; the probes that exist while a domain is scanned are probes
\* of that domain, so the rows of a domain are written before any probe of
\* the next one starts, and every row is of a domain already scanned.
C16_RowsAfterScanReturned ==
    /\ [][ rows' # rows =>
             /\ pc = "return"
             /\ pc' = "domains"
             /\ d' = d
             /\ \A t \in TaskIds : tasks[t].pc = "done"
             /\ Len(rows') = Len(rows) + Len(all_results)
             /\ SubSeq(rows', 1, Len(rows)) = rows
             /\ \A k \in 1..Len(all_results) :
                   rows'[Len(rows) + k] = <<all_results[k][1], all_results[k][2], domains[d]>>
         ]_vars
    /\ [](/\ pc = "gather" => \A t \in TaskIds : tasks[t].domain = domains[d]
          /\ \A k \in 1..Len(rows) :
                \E j \in 1..d :
                   /\ rows[k][3] = domains[j]
                   /\ j = d => pc \in {"domains", "finished", "returned"})

\* the two rows of the first domain are in the file and a probe of the
\* second domain is waiting for its answer
C16_Witness ==
    /\ pc = "gather"
    /\ d = 2
    /\ domains[1] # domains[2]
    /\ Len(rows) >= 2
    /\ \A k \in 1..Len(rows) : rows[k][3] = domains[1]
    /\ \E t \in TaskIds : tasks[t].pc = "get"

\* C18: the session is created once, on entering the `async with` block, and
\* closed once, on leaving it; it is closed whenever the block has been left,
\* after process_domains_file returned or raised; a request is only sent, or
\* waited for, while the session is open, and none after it was closed.
C18_SessionClosedOnEveryExit ==
    /\ [](/\ pc \in {"returned", "propagated"} => session = "closed"
          /\ pc = "enter" <=> session = "none"
          /\ (\E t \in TaskIds : tasks[t].pc # "done") => session = "open")
    /\ [][ /\ session' # session =>
                \/ session = "none" /\ session' = "open" /\ pc = "enter"
                \/ session = "open" /\ session' = "closed" /\ pc \in {"finished", "raised"}
           /\ http_calls' # http_calls => session = "open" /\ session' = "open"
           /\ (\E t \in DOMAIN tasks' :
                  /\ tasks'[t].pc = "get"
                  /\ t \in TaskIds => tasks[t] # tasks'[t]) =>
                 session = "open" /\ session' = "open"
         ]_vars

\* the block was left by the exception of process_domains_file and the
\* session is closed
C18_Witness ==
    /\ pc = "propagated"
    /\ session = "closed"

\* C17: with the event loop running whatever can run and every request
\* answered, every probe handed to gather returns, no probe stays in the
\* queue of rate_limiter, every gather is left, every scan_domain call
\* returns and the run ends.
C17_EveryScanReturns ==
    /\ \A t \in 1..MaxChunk :
          /\ (t \in TaskIds /\ tasks[t].pc # "done") ~> (t \in TaskIds /\ tasks[t].pc = "done")
          /\ (t \in TaskIds /\ tasks[t].pc = "acquire")
                ~> (t \in TaskIds /\ tasks[t].pc \in {"get", "done"})
    /\ pc = "gather" ~> pc = "chunks"
    /\ pc = "lengths" ~> pc = "return"
    /\ <>(pc \in {"returned", "propagated"})

\* a scan of lengths 1 and 2 has returned with one slot for chunks of two
\* probes or more, every candidate handed to check_subdomain
C17_Witness ==
    /\ pc = "return"
    /\ d = 1
    /\ min_length = 1
    /\ max_length = 2
    /\ concurrent_requests = 1
    /\ chunk_size >= 2
    /\ \A l \in Candidates : FullDomain(l, domain) \in seen_subdomains
    /\ \A t \in TaskIds : tasks[t].pc = "done"

====
